---- MODULE Spec2Model ----
(***************************************************************************)
(* Model of scripts/sync-release-to-supabase.js: a one-shot job that       *)
(* fetches one release, filters its assets by file name, resolves each     *)
(* qualifying asset's SHA512 from a manifest asset, upserts one row per    *)
(* asset into the app_versions table and demotes the other rows of the     *)
(* same (platform, architecture) pair.                                     *)
(*                                                                         *)
(* Strings the code inspects character by character (file names, tags,     *)
(* manifest text) are sequences of one-character strings.                  *)
(***************************************************************************)
EXTENDS Integers, Sequences, FiniteSets, TLC

VARIABLES
    table,           \* rows of app_versions
    pc,              \* position of syncReleaseToSupabase: idle, fetch, loop, hash, upsert, demote, exited
    lookup,          \* "id" or "tag": which fetch the run issued
    release,         \* the fetched release (NullRelease before/without one)
    i,               \* 1-based position of the asset the loop is at
    processedCount,  \* the local success counter
    sha512,          \* hash resolved for the asset at i
    error,           \* message kind of the error caught at top level ("" if none)
    exitCode,        \* -1 while running, then the process exit code
    journal,         \* outbound calls issued by the current run, in order
    runs,            \* number of job executions started
    httpStatus,      \* response.status of the release fetch (0 before it answers)
    prevDone         \* keys upserted by the previous run when it exited 0

vars == <<table, pc, lookup, release, i, processedCount, sha512, error,
          exitCode, journal, runs, httpStatus, prevDone>>

\* ---------------------------------------------------------------- bounds
MaxRuns == 3
MaxLines == 4

\* ------------------------------------------------------- string helpers
\* String.prototype.includes
Includes(s, p) ==
    \E k \in 0..(Len(s) - Len(p)) : SubSeq(s, k + 1, k + Len(p)) = p

\* index of the first occurrence of p in s (0 when there is none)
IndexOf(s, p) ==
    IF Includes(s, p)
    THEN CHOOSE k \in 1..(Len(s) - Len(p) + 1) :
            /\ SubSeq(s, k, k + Len(p) - 1) = p
            /\ \A j \in 1..(k - 1) : SubSeq(s, j, j + Len(p) - 1) # p
    ELSE 0

UpperAlpha ==
    <<"A","B","C","D","E","F","G","H","I","J","K","L","M",
      "N","O","P","Q","R","S","T","U","V","W","X","Y","Z">>
LowerAlpha ==
    <<"a","b","c","d","e","f","g","h","i","j","k","l","m",
      "n","o","p","q","r","s","t","u","v","w","x","y","z">>

\* String.prototype.toLowerCase
toLowerCase(s) ==
    [k \in 1..Len(s) |->
        IF \E u \in 1..26 : UpperAlpha[u] = s[k]
        THEN LowerAlpha[CHOOSE u \in 1..26 : UpperAlpha[u] = s[k]]
        ELSE s[k]]

\* String.prototype.replace with a string pattern: first occurrence only
replace(s, p, r) ==
    LET k == IndexOf(s, p)
    IN  IF k = 0 THEN s
        ELSE SubSeq(s, 1, k - 1) \o r \o SubSeq(s, k + Len(p), Len(s))

\* String.prototype.split with a non-empty separator
RECURSIVE split(_, _)
split(s, sep) ==
    LET k == IndexOf(s, sep)
    IN  IF k = 0 THEN <<s>>
        ELSE <<SubSeq(s, 1, k - 1)>> \o split(SubSeq(s, k + Len(sep), Len(s)), sep)

WhiteSpace == {" ", "\t", "\r", "\n"}

\* String.prototype.trim
RECURSIVE trim(_)
trim(s) ==
    IF s = <<>> THEN s
    ELSE IF s[1] \in WhiteSpace THEN trim(Tail(s))
    ELSE IF s[Len(s)] \in WhiteSpace THEN trim(SubSeq(s, 1, Len(s) - 1))
    ELSE s

\* -------------------------------------------------------- literals used
dotDmg      == <<".","d","m","g">>
dotExe      == <<".","e","x","e">>
dotAppImage == <<".","A","p","p","I","m","a","g","e">>
dotDeb      == <<".","d","e","b">>
dotRpm      == <<".","r","p","m">>
dotBlockmap == <<".","b","l","o","c","k","m","a","p">>
dotYml      == <<".","y","m","l">>
dotYaml     == <<".","y","a","m","l">>
dotJson     == <<".","j","s","o","n">>
dotTxt      == <<".","t","x","t">>
dotMd       == <<".","m","d">>
sArm64      == <<"a","r","m","6","4">>
sX64        == <<"x","6","4">>
sX86_64     == <<"x","8","6","_","6","4">>
sIa32       == <<"i","a","3","2">>
sI386       == <<"i","3","8","6">>
sUrl        == <<"u","r","l",":"," ">>
sSha512     == <<"s","h","a","5","1","2",":">>
sLatest     == <<"l","a","t","e","s","t","-">>
sMacYml     == <<"-","m","a","c",".","y","m","l">>
NL          == <<"\n">>

appExtensions == {dotDmg, dotExe, dotAppImage, dotDeb, dotRpm}
excludedPatterns == {dotBlockmap, dotYml, dotYaml, dotJson, dotTxt, dotMd}


\* ------------------------------------------------------- pure functions
isAppAsset(asset) ==
    IF \E pattern \in excludedPatterns : Includes(toLowerCase(asset.name), pattern)
    THEN FALSE
    ELSE \E ext \in appExtensions : Includes(toLowerCase(asset.name), ext)

detectPlatform(fileName) ==
    IF Includes(fileName, dotDmg) THEN "darwin"
    ELSE IF Includes(fileName, dotExe) THEN "win32"
    ELSE IF Includes(fileName, dotAppImage) \/ Includes(fileName, dotDeb) THEN "linux"
    ELSE "unknown"

detectArchitecture(fileName) ==
    IF Includes(fileName, sArm64) THEN "arm64"
    ELSE IF Includes(fileName, sX64) \/ Includes(fileName, sX86_64) THEN "x64"
    ELSE IF Includes(fileName, sIa32) \/ Includes(fileName, sI386) THEN "ia32"
    ELSE "x64"

\* release.tag_name.replace('v', '')
Version(tag_name) == replace(tag_name, <<"v">>, <<>>)

\* response.ok
ResponseOk(status) == status >= 200 /\ status <= 299

\* variant of ScanLines: gives up at the first url line when the line after
\* it carries no sha512
RECURSIVE ScanLinesFirstUrl(_, _, _)
ScanLinesFirstUrl(lines, assetName, k) ==
    IF k > Len(lines) THEN [found |-> FALSE, sha512 |-> <<>>]
    ELSE IF Includes(lines[k], sUrl \o assetName)
         THEN IF k + 1 <= Len(lines) /\ Includes(lines[k + 1], sSha512)
              THEN [found |-> TRUE,
                    sha512 |-> trim(split(lines[k + 1], sSha512)[2])]
              ELSE [found |-> FALSE, sha512 |-> <<>>]
         ELSE ScanLinesFirstUrl(lines, assetName, k + 1)

\* the for loop over the manifest's lines, from (1-based) line k on
RECURSIVE ScanLines(_, _, _)
ScanLines(lines, assetName, k) ==
    IF k > Len(lines) THEN [found |-> FALSE, sha512 |-> <<>>]
    ELSE IF /\ Includes(lines[k], sUrl \o assetName)
            /\ k + 1 <= Len(lines)
            /\ Includes(lines[k + 1], sSha512)
         THEN [found |-> TRUE, sha512 |-> trim(split(lines[k + 1], sSha512)[2])]
         ELSE ScanLines(lines, assetName, k + 1)

\* name of the manifest asset getSHA512FromYml looks for
YmlName(assetName) ==
    sLatest \o (IF Includes(assetName, sArm64) THEN sArm64 ELSE sX64) \o sMacYml

\* release.assets.find(...): position of the first asset of that name, 0 if none
FindAsset(assets, name) ==
    IF \E j \in 1..Len(assets) : assets[j].name = name
    THEN CHOOSE j \in 1..Len(assets) :
            /\ assets[j].name = name
            /\ \A h \in 1..(j - 1) : assets[h].name # name
    ELSE 0

\* getSHA512FromYml, given the status the manifest download answers with
getSHA512FromYml(asset, rel, status) ==
    LET y == FindAsset(rel.assets, YmlName(asset.name))
    IN  IF y = 0
        THEN [ok |-> FALSE, downloaded |-> FALSE, sha512 |-> <<>>,
              error |-> "SHA512 not found in yml"]
        ELSE IF ~ResponseOk(status)
        THEN [ok |-> FALSE, downloaded |-> TRUE, sha512 |-> <<>>,
              error |-> "Failed to fetch yml file"]
        ELSE LET r == ScanLines(split(rel.assets[y].content, NL), asset.name, 1)
             IN  IF r.found
                 THEN [ok |-> TRUE, downloaded |-> TRUE, sha512 |-> r.sha512,
                       error |-> ""]
                 ELSE [ok |-> FALSE, downloaded |-> TRUE, sha512 |-> <<>>,
                       error |-> "SHA512 not found in yml"]

NullRelease == [tag_name |-> <<>>, draft |-> FALSE, assets |-> <<>>]

\* fetchReleaseById, given the API's answer
fetchReleaseById(status, rel) ==
    IF ~ResponseOk(status)
    THEN [kind |-> "throw", release |-> NullRelease]
    ELSE [kind |-> "ok", release |-> rel]

\* variant of fetchReleaseByTag: a 404 throws like every other failure
fetchReleaseByTagStrict(status, rel) ==
    IF ~ResponseOk(status)
    THEN [kind |-> "throw", release |-> NullRelease]
    ELSE [kind |-> "ok", release |-> rel]

\* fetchReleaseByTag, given the API's answer
fetchReleaseByTag(status, rel) ==
    IF ~ResponseOk(status)
    THEN IF status = 404
         THEN [kind |-> "null", release |-> NullRelease]
         ELSE [kind |-> "throw", release |-> NullRelease]
    ELSE [kind |-> "ok", release |-> rel]

\* the lookup the run uses: releaseId && !isManualTrigger
LookupMode(hasReleaseId, isManualTrigger) ==
    IF hasReleaseId /\ ~isManualTrigger THEN "id" ELSE "tag"

\* variant of SkipDraft: drafts are processed like published releases
SkipDraftNever(rel) == FALSE

\* if (release.draft) return
SkipDraft(rel) == rel.draft

\* ------------------------------------------------------------ the table
\* the row processAsset builds (fields that are plain copies of the asset
\* or the clock are left out)
versionData(asset, rel, hash) ==
    [version      |-> Version(rel.tag_name),
     platform     |-> detectPlatform(asset.name),
     architecture |-> detectArchitecture(asset.name),
     file_name    |-> asset.name,
     sha512       |-> hash,
     is_latest    |-> TRUE]

SameKey(r, q) ==
    /\ r.version = q.version
    /\ r.platform = q.platform
    /\ r.architecture = q.architecture

\* upsert(versionData, {onConflict: 'version,platform,architecture'})
UpsertRow(t, row) == {r \in t : ~SameKey(r, row)} \cup {row}

\* variant of DemoteOthers: the .neq('version', ...) filter is missing
DemoteWholePair(t, platform, architecture, version) ==
    {IF r.platform = platform /\ r.architecture = architecture
     THEN [r EXCEPT !.is_latest = FALSE]
     ELSE r : r \in t}

\* update({is_latest: false}).eq(platform).eq(architecture).neq(version)
DemoteOthers(t, platform, architecture, version) ==
    {IF /\ r.platform = platform
        /\ r.architecture = architecture
        /\ r.version # version
     THEN [r EXCEPT !.is_latest = FALSE]
     ELSE r : r \in t}


\* ------------------------------------------------------------- fixtures
nameX64      == <<"a","-","x","6","4",".","d","m","g">>
nameArm64    == <<"a","-","a","r","m","6","4",".","d","m","g">>
nameAppImage == <<"a","-","x","6","4",".","A","p","p","I","m","a","g","e">>
nameBlockmap == nameX64 \o dotBlockmap
hashA        == <<"H","a">>
hashB        == <<"H","b">>

UrlLine(n) == <<" "," ","-"," ">> \o sUrl \o n
ShaLine(h) == <<" "," "," "," ">> \o sSha512 \o <<" ">> \o h
SizeLine   == <<" "," "," "," ","s","i","z","e",":"," ","1">>

RECURSIVE JoinLines(_)
JoinLines(ls) ==
    IF ls = <<>> THEN <<>> ELSE ls[1] \o NL \o JoinLines(Tail(ls))

App(n)    == [name |-> n, content |-> <<>>]
Yml(n, c) == [name |-> n, content |-> c]

GoodYml(n, h) == Yml(YmlName(n), JoinLines(<<UrlLine(n), ShaLine(h), SizeLine>>))
BadYml(n)     == Yml(YmlName(n), JoinLines(<<UrlLine(n), SizeLine>>))

\* the asset arrays releases are drawn from
AssetLists ==
    { <<App(nameX64), App(nameArm64), GoodYml(nameX64, hashA), GoodYml(nameArm64, hashA)>>,
      <<App(nameX64), App(nameArm64), GoodYml(nameX64, hashA)>>,
      <<App(nameArm64), App(nameX64), BadYml(nameArm64), GoodYml(nameX64, hashA)>>,
      <<App(nameAppImage), App(nameBlockmap), GoodYml(nameX64, hashA)>> }

Tags == { <<"v","1">>, <<"v","2">>, <<"2","-","d","e","v">> }

Releases ==
    {[tag_name |-> t, draft |-> d, assets |-> a] :
        t \in Tags, d \in BOOLEAN, a \in AssetLists}

Statuses == {200, 404, 500}

\* ---------------------------------------------------------------- state
Asset == release.assets[i]

\* an outbound call for the asset at i; ok: it gave the caller what it asked
\* for (a hash for "download", no error for "upsert" and "update")
Call(op, ok) == [op |-> op, idx |-> i, ok |-> ok]

KeyOf(r) == [version |-> r.version, platform |-> r.platform,
             architecture |-> r.architecture]

\* keys of the rows the current run has upserted
UpsertedKeys ==
    {KeyOf(versionData(release.assets[journal[k].idx], release, <<>>)) :
        k \in {h \in 1..Len(journal) : journal[h].op = "upsert" /\ journal[h].ok}}

Init ==
    /\ table = {}
    /\ pc = "idle"
    /\ lookup = "none"
    /\ release = NullRelease
    /\ i = 0
    /\ processedCount = 0
    /\ sha512 = <<>>
    /\ error = ""
    /\ exitCode = -1
    /\ journal = <<>>
    /\ runs = 0
    /\ httpStatus = 0
    /\ prevDone = {}

\* catch (error) { console.error(...); process.exit(1) }
Throw(e) ==
    /\ pc' = "exited"
    /\ exitCode' = 1
    /\ error' = e

\* return from syncReleaseToSupabase: the process ends with code 0
Return ==
    /\ pc' = "exited"
    /\ exitCode' = 0
    /\ error' = error

\* a new execution of the job begins
Begin ==
    /\ pc \in {"idle", "exited"}
    /\ runs < MaxRuns
    /\ runs' = runs + 1
    /\ prevDone' = IF pc = "exited" /\ exitCode = 0 THEN UpsertedKeys ELSE {}
    /\ release' = NullRelease
    /\ i' = 0
    /\ processedCount' = 0
    /\ sha512' = <<>>
    /\ journal' = <<>>
    /\ httpStatus' = 0
    /\ UNCHANGED table

\* if (!supabaseUrl || !supabaseKey) throw
StartNoCredentials ==
    /\ Begin
    /\ lookup' = "none"
    /\ Throw("Missing Supabase credentials")

\* credentials present: the fetch is issued
StartFetch ==
    /\ Begin
    /\ \E hasReleaseId \in BOOLEAN, isManualTrigger \in BOOLEAN :
          lookup' = LookupMode(hasReleaseId, isManualTrigger)
    /\ pc' = "fetch"
    /\ exitCode' = -1
    /\ error' = ""

FetchResult(status, rel) ==
    IF lookup = "id" THEN fetchReleaseById(status, rel)
    ELSE fetchReleaseByTag(status, rel)

\* the fetch throws
FetchThrows ==
    /\ pc = "fetch"
    /\ \E status \in Statuses, rel \in Releases :
          /\ FetchResult(status, rel).kind = "throw"
          /\ httpStatus' = status
    /\ Throw("GitHub API error")
    /\ UNCHANGED <<table, lookup, release, i, processedCount, sha512, journal,
                   runs, prevDone>>

\* the fetch returns null: if (!release) throw
FetchNull ==
    /\ pc = "fetch"
    /\ \E status \in Statuses, rel \in Releases :
          /\ FetchResult(status, rel).kind = "null"
          /\ httpStatus' = status
    /\ Throw("Release not found")
    /\ UNCHANGED <<table, lookup, release, i, processedCount, sha512, journal,
                   runs, prevDone>>

\* the fetch returns a draft release: skipped
FetchDraft ==
    /\ pc = "fetch"
    /\ \E status \in Statuses, rel \in Releases :
          /\ FetchResult(status, rel).kind = "ok"
          /\ SkipDraft(FetchResult(status, rel).release)
          /\ release' = FetchResult(status, rel).release
          /\ httpStatus' = status
    /\ Return
    /\ UNCHANGED <<table, lookup, i, processedCount, sha512, journal, runs, prevDone>>

\* the fetch returns a published release: the loop over its assets starts
FetchPublished ==
    /\ pc = "fetch"
    /\ \E status \in Statuses, rel \in Releases :
          /\ FetchResult(status, rel).kind = "ok"
          /\ ~SkipDraft(FetchResult(status, rel).release)
          /\ release' = FetchResult(status, rel).release
          /\ httpStatus' = status
    /\ pc' = "loop"
    /\ i' = 1
    /\ UNCHANGED <<table, lookup, processedCount, sha512, error, exitCode, journal,
                   runs, prevDone>>

\* for (const asset of release.assets): the asset does not qualify
LoopSkip ==
    /\ pc = "loop"
    /\ i <= Len(release.assets)
    /\ ~isAppAsset(Asset)
    /\ i' = i + 1
    /\ UNCHANGED <<table, pc, lookup, release, processedCount, sha512, error,
                   exitCode, journal, runs, httpStatus, prevDone>>

\* the asset qualifies: processAsset is entered
LoopAccept ==
    /\ pc = "loop"
    /\ i <= Len(release.assets)
    /\ isAppAsset(Asset)
    /\ pc' = "hash"
    /\ UNCHANGED <<table, lookup, release, i, processedCount, sha512, error,
                   exitCode, journal, runs, httpStatus, prevDone>>

\* the loop is over: both endings return normally
LoopEnd ==
    /\ pc = "loop"
    /\ i > Len(release.assets)
    /\ Return
    /\ UNCHANGED <<table, lookup, release, i, processedCount, sha512, journal,
                   runs, httpStatus, prevDone>>

JournalAfterHash(res) ==
    IF res.downloaded THEN Append(journal, Call("download", res.ok)) ELSE journal

\* getSHA512FromYml returns a hash: the upsert is issued
HashOk ==
    /\ pc = "hash"
    /\ \E status \in Statuses :
          LET res == getSHA512FromYml(Asset, release, status)
          IN  /\ res.ok
              /\ sha512' = res.sha512
              /\ journal' = JournalAfterHash(res)
    /\ pc' = "upsert"
    /\ UNCHANGED <<table, lookup, release, i, processedCount, error, exitCode,
                   runs, httpStatus, prevDone>>

\* variant of HashThrows: the error is caught per asset and the loop goes on
HashThrowsIsolated ==
    /\ pc = "hash"
    /\ \E status \in Statuses :
          LET res == getSHA512FromYml(Asset, release, status)
          IN  /\ ~res.ok
              /\ error' = res.error
              /\ journal' = JournalAfterHash(res)
    /\ pc' = "loop"
    /\ i' = i + 1
    /\ UNCHANGED <<table, lookup, release, processedCount, sha512, exitCode,
                   runs, httpStatus, prevDone>>

\* getSHA512FromYml throws: the error reaches the top-level catch
HashThrows ==
    /\ pc = "hash"
    /\ \E status \in Statuses :
          LET res == getSHA512FromYml(Asset, release, status)
          IN  /\ ~res.ok
              /\ Throw(res.error)
              /\ journal' = JournalAfterHash(res)
    /\ UNCHANGED <<table, lookup, release, i, processedCount, sha512, runs, httpStatus, prevDone>>

\* the upsert is applied and answers without error: the demotion is issued
UpsertOk ==
    /\ pc = "upsert"
    /\ table' = UpsertRow(table, versionData(Asset, release, sha512))
    /\ journal' = Append(journal, Call("upsert", TRUE))
    /\ pc' = "demote"
    /\ UNCHANGED <<lookup, release, i, processedCount, sha512, error, exitCode,
                   runs, httpStatus, prevDone>>

\* variant of UpsertError: the rows this run wrote are removed on failure
UpsertErrorRollback ==
    /\ pc = "upsert"
    /\ journal' = Append(journal, Call("upsert", FALSE))
    /\ Throw("Failed to upsert")
    /\ table' = {r \in table : r.version # Version(release.tag_name)}
    /\ UNCHANGED <<lookup, release, i, processedCount, sha512, runs, httpStatus,
                   prevDone>>

\* the upsert answers with an error: if (error) throw
UpsertError ==
    /\ pc = "upsert"
    /\ journal' = Append(journal, Call("upsert", FALSE))
    /\ Throw("Failed to upsert")
    /\ UNCHANGED <<table, lookup, release, i, processedCount, sha512, runs, httpStatus, prevDone>>

\* processAsset returns: processedCount++ and the loop goes on
AssetProcessed ==
    /\ pc' = "loop"
    /\ i' = i + 1
    /\ processedCount' = processedCount + 1
    /\ UNCHANGED <<lookup, release, sha512, error, exitCode, runs, httpStatus, prevDone>>

\* the demotion update is applied
DemoteApplied ==
    /\ pc = "demote"
    /\ table' = DemoteOthers(table, detectPlatform(Asset.name),
                             detectArchitecture(Asset.name),
                             Version(release.tag_name))
    /\ journal' = Append(journal, Call("update", TRUE))
    /\ AssetProcessed

\* the demotion update answers with an error, which the code never reads
DemoteFailed ==
    /\ pc = "demote"
    /\ table' = table
    /\ journal' = Append(journal, Call("update", FALSE))
    /\ AssetProcessed

Next ==
    \/ StartNoCredentials
    \/ StartFetch
    \/ FetchThrows
    \/ FetchNull
    \/ FetchDraft
    \/ FetchPublished
    \/ LoopSkip
    \/ LoopAccept
    \/ LoopEnd
    \/ HashOk
    \/ HashThrows
    \/ UpsertOk
    \/ UpsertError
    \/ DemoteApplied
    \/ DemoteFailed

Spec == Init /\ [][Next]_vars


\* ------------------------------------------ the asset filter on its own
\* file names built from a stem and up to two of the parts the filter and
\* the deriver look for, in both letter cases
NameStems == { <<"a">>, <<"a","-","x","6","4">> }
NameParts ==
    appExtensions \cup excludedPatterns \cup
    { <<>>, <<".","D","M","G">>, <<".","a","p","p","i","m","a","g","e">>,
      <<".","Y","M","L">>, <<".","z","i","p">> }
FileNames == {st \o p1 \o p2 : st \in NameStems, p1 \in NameParts, p2 \in NameParts}

\* a published release with the one asset named n, the loop about to look at it
InitFilter ==
    /\ table = {}
    /\ pc = "loop"
    /\ lookup = "tag"
    /\ \E n \in FileNames :
          release = [tag_name |-> <<"v","1">>, draft |-> FALSE, assets |-> <<App(n)>>]
    /\ i = 1
    /\ processedCount = 0
    /\ sha512 = <<>>
    /\ error = ""
    /\ exitCode = -1
    /\ journal = <<>>
    /\ runs = 1
    /\ httpStatus = 200
    /\ prevDone = {}

NextFilter == LoopSkip \/ LoopAccept \/ LoopEnd

SpecFilter == InitFilter /\ [][NextFilter]_vars

\* ------------------------------------------ the hash resolver on its own
LineKinds ==
    { UrlLine(nameX64), UrlLine(nameBlockmap), UrlLine(nameArm64),
      ShaLine(hashA), ShaLine(hashB) \o <<" ">>, SizeLine }

ManifestLines == UNION {[1..n -> LineKinds] : n \in 0..MaxLines}

\* processAsset has just been entered for a-x64.dmg; the release carries a
\* manifest of up to MaxLines lines
InitHash ==
    /\ table = {}
    /\ pc = "hash"
    /\ lookup = "tag"
    /\ \E ls \in ManifestLines :
          release = [tag_name |-> <<"v","1">>, draft |-> FALSE,
                     assets |-> <<App(nameX64),
                                  Yml(YmlName(nameX64), JoinLines(ls))>>]
    /\ i = 1
    /\ processedCount = 0
    /\ sha512 = <<>>
    /\ error = ""
    /\ exitCode = -1
    /\ journal = <<>>
    /\ runs = 1
    /\ httpStatus = 200
    /\ prevDone = {}

NextHash == HashOk \/ HashThrows

SpecHash == InitHash /\ [][NextHash]_vars


\* =============================================================== claims
SamePair(r, q) == r.platform = q.platform /\ r.architecture = q.architecture

\* the key the run writes for the asset at position j
KeyAt(j) == KeyOf(versionData(release.assets[j], release, <<>>))

LatestOf(platform, architecture) ==
    {r \in table : r.platform = platform /\ r.architecture = architecture /\ r.is_latest}

AssetErrors == {"SHA512 not found in yml", "Failed to fetch yml file", "Failed to upsert"}

\* C1: in every reachable state of the table at most one row per
\* (platform, architecture) pair has is_latest = true
C1_SingleLatest ==
    \A r \in table, q \in table :
        (SamePair(r, q) /\ r.is_latest /\ q.is_latest) => r = q

\* C2: a completed run that upserted (V1, p, a) followed by a completed run
\* that upserted (V2, p, a), V1 # V2, leaves exactly one is_latest row for
\* (p, a), and it is the V2 row
C2_SecondRunIsLatest ==
    (pc = "exited" /\ exitCode = 0) =>
        \A k1 \in prevDone, k2 \in UpsertedKeys :
            (SamePair(k1, k2) /\ k1.version # k2.version) =>
                /\ Cardinality(LatestOf(k2.platform, k2.architecture)) = 1
                /\ \A r \in LatestOf(k2.platform, k2.architecture) :
                      r.version = k2.version

\* C3: when hash resolution or the upsert fails for the asset at position
\* i, the run is over with exit code 1, no call was issued for any later
\* asset, and no demotion was issued for the failing asset
C3_NoPerAssetIsolation ==
    (error \in AssetErrors) =>
        /\ pc = "exited"
        /\ exitCode = 1
        /\ \A k \in 1..Len(journal) :
              /\ journal[k].idx <= i
              /\ journal[k].idx = i =>
                    /\ journal[k].op # "update"
                    /\ journal[k].op = "upsert" => ~journal[k].ok

\* C3 witness: a run failed at an asset that a qualifying asset follows
C3_Witness ==
    /\ error \in AssetErrors
    /\ pc = "exited"
    /\ \E j \in (i + 1)..Len(release.assets) : isAppAsset(release.assets[j])

\* C4: a draft release ends the run with exit code 0 and without any
\* manifest download, upsert or demotion having been issued
C4_DraftNoWrites ==
    release.draft =>
        /\ pc = "exited"
        /\ exitCode = 0
        /\ error = ""
        /\ journal = <<>>
        /\ processedCount = 0

\* C4 witness: a draft release with a qualifying asset has been fetched
C4_Witness ==
    /\ release.draft
    /\ pc = "exited"
    /\ \E j \in 1..Len(release.assets) : isAppAsset(release.assets[j])

\* C5: with the tag lookup, a 404 gives a null release, which ends the run
\* with "Release not found", exit code 1 and no call issued; any other
\* non-success status ends it with the API error instead
C5_TagNotFound ==
    /\ (lookup = "tag" /\ httpStatus = 404) =>
          /\ pc = "exited"
          /\ error = "Release not found"
          /\ exitCode = 1
          /\ release = NullRelease
          /\ journal = <<>>
    /\ (lookup = "tag" /\ httpStatus # 0 /\ httpStatus # 404 /\ ~ResponseOk(httpStatus)) =>
          /\ pc = "exited"
          /\ error = "GitHub API error"
          /\ exitCode = 1
          /\ journal = <<>>
    /\ (error = "Release not found") => (lookup = "tag" /\ httpStatus = 404)

\* C5 witness: the tag lookup was answered 404
C5_Witness ==
    /\ lookup = "tag"
    /\ httpStatus = 404
    /\ pc = "exited"

\* what the asset filter is specified to do with a name
SpecExcluded(name) ==
    \E p \in excludedPatterns : Includes(toLowerCase(name), p)
SpecInstaller(name) ==
    \E e \in appExtensions : Includes(toLowerCase(name), toLowerCase(e))

\* C6: isAppAsset rejects every name whose lowercased form contains an
\* excluded pattern, and otherwise accepts exactly the names that contain,
\* case-insensitively, one of .dmg .exe .AppImage .deb .rpm
C6_FilterAsSpecified ==
    LET name == release.assets[1].name
    IN  /\ (pc = "hash") => (~SpecExcluded(name) /\ SpecInstaller(name))
        /\ (i > 1) => (SpecExcluded(name) \/ ~SpecInstaller(name))

\* the lines of the manifest of the hash resolver's run, and the positions
\* of the url lines for the asset
YmlLines == split(release.assets[2].content, NL)
UrlLines == {k \in 1..Len(YmlLines) : Includes(YmlLines[k], sUrl \o Asset.name)}
\* url lines immediately followed by a sha512 line
UrlShaLines ==
    {k \in UrlLines : k + 1 <= Len(YmlLines) /\ Includes(YmlLines[k + 1], sSha512)}
Least(S) == CHOOSE k \in S : \A j \in S : k <= j

\* C7 as claimed: when the first url line for the asset is not immediately
\* followed by a sha512 line, the resolver returns no hash
C7_FailsAtFirstUrlLine ==
    (UrlLines # {} /\ Least(UrlLines) \notin UrlShaLines) => pc # "upsert"

\* C7 as amended: on a downloaded manifest the resolver fails, with the
\* SHA512-not-found error, exactly when no url line for the asset is
\* immediately followed by a sha512 line; otherwise it returns the hash of the
\* line after the first such url line
C7_FirstUrlShaPair ==
    /\ (pc = "upsert") =>
          /\ UrlShaLines # {}
          /\ sha512 = trim(split(YmlLines[Least(UrlShaLines) + 1], sSha512)[2])
    /\ (pc = "exited" /\ error # "Failed to fetch yml file") =>
          /\ error = "SHA512 not found in yml"
          /\ UrlShaLines = {}

\* C7 witness: a hash was returned although the first url line for the asset
\* is not followed by a sha512 line
C7_Witness ==
    /\ pc = "upsert"
    /\ UrlLines # {}
    /\ Least(UrlLines) \notin UrlShaLines

\* the tag with only a leading "v" stripped
StripLeadingV(tag) == IF tag # <<>> /\ tag[1] = "v" THEN Tail(tag) ELSE tag

\* C8: the version of the row just upserted is the release tag with only a
\* leading "v" stripped
C8_LeadingVStripped ==
    (pc = "demote") =>
        \E r \in table :
            /\ r.file_name = Asset.name
            /\ r.is_latest
            /\ r.version = StripLeadingV(release.tag_name)

\* a step that issues the demotion update
DemotionStep ==
    /\ Len(journal') = Len(journal) + 1
    /\ journal'[Len(journal')].op = "update"

\* C9: the demotion is issued only right after the successful upsert of the
\* same asset; it leaves the number of rows, the just-upserted row and every
\* row of another pair unchanged and changes at most is_latest, to false, of
\* the other rows; and no step of the job removes a row
C9_DemotionFrame ==
    [][ /\ \A r \in table : \E q \in table' : SameKey(r, q)
        /\ DemotionStep =>
              /\ Len(journal) > 0
              /\ journal[Len(journal)] =
                    [op |-> "upsert", idx |-> journal'[Len(journal')].idx, ok |-> TRUE]
              /\ Cardinality(table') = Cardinality(table)
              /\ \A r \in table :
                    IF SamePair(r, KeyAt(i)) /\ r.version # KeyAt(i).version
                    THEN r \in table' \/ [r EXCEPT !.is_latest = FALSE] \in table'
                    ELSE r \in table'
      ]_vars

\* C9 witness: a demotion was applied that demoted a row of the asset's pair
\* while the just-upserted row and a row of another pair stay latest
C9_Witness ==
    /\ pc = "loop"
    /\ Len(journal) > 0
    /\ journal[Len(journal)].op = "update"
    /\ journal[Len(journal)].ok
    /\ LET k == KeyAt(journal[Len(journal)].idx)
       IN  /\ \E r \in table : SamePair(r, k) /\ r.version # k.version /\ ~r.is_latest
           /\ \E r \in table : SameKey(r, k) /\ r.is_latest
           /\ \E r \in table : ~SamePair(r, k) /\ r.version # k.version /\ r.is_latest

\* C10: when a run has failed, every row it upserted before the failure is
\* still in the table and latest, and every demotion it applied still holds
C10_NoRollback ==
    (pc = "exited" /\ exitCode = 1) =>
        /\ \A k \in UpsertedKeys : \E r \in table : SameKey(r, k) /\ r.is_latest
        /\ \A h \in 1..Len(journal) :
              (journal[h].op = "update" /\ journal[h].ok) =>
                  \A r \in table :
                      (SamePair(r, KeyAt(journal[h].idx))
                          /\ r.version # KeyAt(journal[h].idx).version) => ~r.is_latest

\* C10 witness: a failed run left its version latest for the pair of an
\* asset it processed while another version is still the only latest one
\* for the pair of a qualifying asset it did not get to write
C10_Witness ==
    /\ pc = "exited"
    /\ exitCode = 1
    /\ \E k \in UpsertedKeys :
          \A r \in LatestOf(k.platform, k.architecture) : r.version = k.version
    /\ \E j \in i..Len(release.assets) :
          /\ isAppAsset(release.assets[j])
          /\ LatestOf(KeyAt(j).platform, KeyAt(j).architecture) # {}
          /\ \A r \in LatestOf(KeyAt(j).platform, KeyAt(j).architecture) :
                r.version # KeyAt(j).version

====
